---- MODULE Spec2Model ----
(***************************************************************************)
(* Analytics dashboard (src/analytics/app.py): the cached Firestore load,  *)
(* the metrics, the funnel, the financial extractor and the page sections. *)
(*                                                                         *)
(* Representation.                                                         *)
(*  - A frame (DataFrame) or a stream of documents is a sequence of runs:  *)
(*    a run [n |-> k, ...] stands for k consecutive records with the same  *)
(*    field values (their ids differ; no code path reads the id).  The     *)
(*    number of records of a frame is the sum of its n.                    *)
(*  - A Python value is a record [t, n, s, l, d]; t is its type.           *)
(*  - JSON text is a sequence of tokens; json.dumps writes it and          *)
(*    json.loads parses it.                                                *)
(*  - A datetime is a number of seconds; strftime('%Y-%m-%d %H:%M') keeps  *)
(*    the minute.                                                          *)
(*  - A Python exception is explicit: an operator that can raise returns a *)
(*    record with a field raised.                                          *)
(*  - Columns no computation reads (id, lead_name, lead_phone, lead_email) *)
(*    are left out of the rows.                                            *)
(*                                                                         *)
(* Library behaviour the code relies on.                                   *)
(*  - Firestore: order_by(field) returns only documents that have the      *)
(*    field; values order null < number < timestamp < string, so null      *)
(*    comes last in a descending order.                                    *)
(*  - Streamlit: st.stop() ends the script run with an exception that is   *)
(*    no Exception; st.cache_data(ttl) serves a stored result while its    *)
(*    age is below ttl; st.cache_resource keeps a client once returned.    *)
(*  - pandas: groupby yields its keys in ascending order; (df > 0).any     *)
(*    (axis=1) is true of a row with some positive column.                 *)
(***************************************************************************)
EXTENDS Integers, Sequences, FiniteSets

VARIABLES
    clock,   \* wall clock, in seconds
    env,     \* the store and its condition, as the next load will find them
    db,      \* st.cache_resource: the client init_firebase returned, if any
    cache,   \* st.cache_data: the stored result of load_firestore_data
    load,    \* what the last script run observed of the load
    frames,  \* df_subs and df_events of the last script run
    page     \* metrics and sections of the last script run

vars == <<clock, env, db, cache, load, frames, page>>

-----------------------------------------------------------------------------
(* Program constants *)

\* @st.cache_data(ttl=60)
TTL == 60

\* .limit(1000)
QueryLimit == 1000

\* '%Y-%m-%d %H:%M'
SecondsPerMinute == 60

(* Bounds of the model *)

\* the clock advances in steps of TickSeconds up to MaxClock
TickSeconds == 30
MaxClock == 120

\* number of runs in a collection of the store
MaxRuns == 2

\* number of rows of a frame handed to the funnel / the extractor alone
MaxRows == 2

-----------------------------------------------------------------------------
(* Python values *)

PyVal(t, n, s, l, d) == [t |-> t, n |-> n, s |-> s, l |-> l, d |-> d]
Absent == PyVal("absent", 0, "", <<>>, <<>>)
PyNone == PyVal("None", 0, "", <<>>, <<>>)
PyInt(i) == PyVal("int", i, "", <<>>, <<>>)
PyStr(s) == PyVal("str", 0, s, <<>>, <<>>)
PyList(l) == PyVal("list", 0, "", l, <<>>)
PyDict(d) == PyVal("dict", 0, "", <<>>, d)
PyTime(t) == PyVal("datetime", t, "", <<>>, <<>>)

KV(k, v) == [key |-> k, val |-> v]

\* dict.__contains__
HasKey(d, k) == \E i \in 1..Len(d) : d[i].key = k

\* dict.get(k, default)
DictGet(d, k, default) ==
    IF HasKey(d, k) THEN d[CHOOSE i \in 1..Len(d) : d[i].key = k].val ELSE default

\* d[k] = v
DictSet(d, k, v) ==
    IF HasKey(d, k)
    THEN [i \in 1..Len(d) |-> IF d[i].key = k THEN KV(k, v) ELSE d[i]]
    ELSE Append(d, KV(k, v))

-----------------------------------------------------------------------------
(* JSON text *)

P(s) == [k |-> "punct", s |-> s, n |-> 0]
S(s) == [k |-> "string", s |-> s, n |-> 0]
N(n) == [k |-> "number", s |-> "", n |-> n]
TNull == [k |-> "null", s |-> "", n |-> 0]

RECURSIVE DumpList(_)
DumpList(l) ==
    IF l = <<>> THEN <<>>
    ELSE IF Len(l) = 1 THEN <<N(l[1])>>
    ELSE <<N(l[1]), P(",")>> \o DumpList(Tail(l))

RECURSIVE DumpPairs(_)
DumpPairs(d) ==
    IF d = <<>> THEN <<>>
    ELSE IF Len(d) = 1 THEN <<S(d[1].key), P(":"), N(d[1].val)>>
    ELSE <<S(d[1].key), P(":"), N(d[1].val), P(",")>> \o DumpPairs(Tail(d))

\* json.dumps(v): TypeError on a value that is not JSON serialisable
json_dumps(v) ==
    CASE v.t = "None" -> [raised |-> FALSE, text |-> <<TNull>>]
      [] v.t = "int" -> [raised |-> FALSE, text |-> <<N(v.n)>>]
      [] v.t = "str" -> [raised |-> FALSE, text |-> <<S(v.s)>>]
      [] v.t = "list" -> [raised |-> FALSE, text |-> <<P("[")>> \o DumpList(v.l) \o <<P("]")>>]
      [] v.t = "dict" -> [raised |-> FALSE, text |-> <<P("{")>> \o DumpPairs(v.d) \o <<P("}")>>]
      [] OTHER -> [raised |-> TRUE, text |-> <<>>]

Inner(text) == SubSeq(text, 2, Len(text) - 1)

ConsList(n, r) == [ok |-> r.ok, l |-> <<n>> \o r.l]

\* number (, number)*
RECURSIVE ParseList(_)
ParseList(ts) ==
    IF ts = <<>> \/ ts[1].k # "number" THEN [ok |-> FALSE, l |-> <<>>]
    ELSE IF Len(ts) = 1 THEN [ok |-> TRUE, l |-> <<ts[1].n>>]
    ELSE IF ts[2] # P(",") THEN [ok |-> FALSE, l |-> <<>>]
    ELSE ConsList(ts[1].n, ParseList(SubSeq(ts, 3, Len(ts))))

\* string : number (, string : number)*; a repeated key keeps its last value
RECURSIVE ParsePairs(_, _)
ParsePairs(ts, acc) ==
    IF Len(ts) < 3 \/ ts[1].k # "string" \/ ts[2] # P(":") \/ ts[3].k # "number"
    THEN [ok |-> FALSE, d |-> <<>>]
    ELSE IF Len(ts) = 3 THEN [ok |-> TRUE, d |-> DictSet(acc, ts[1].s, ts[3].n)]
    ELSE IF ts[4] # P(",") THEN [ok |-> FALSE, d |-> <<>>]
    ELSE ParsePairs(SubSeq(ts, 5, Len(ts)), DictSet(acc, ts[1].s, ts[3].n))

Decoded(v) == [ok |-> TRUE, v |-> v]
JSONDecodeError == [ok |-> FALSE, v |-> PyNone]

ListOf(r) == IF r.ok THEN Decoded(PyList(r.l)) ELSE JSONDecodeError
DictOf(r) == IF r.ok THEN Decoded(PyDict(r.d)) ELSE JSONDecodeError

\* json.loads(text)
json_loads(text) ==
    IF text = <<>> THEN JSONDecodeError
    ELSE IF Len(text) = 1
    THEN CASE text[1].k = "null" -> Decoded(PyNone)
           [] text[1].k = "number" -> Decoded(PyInt(text[1].n))
           [] text[1].k = "string" -> Decoded(PyStr(text[1].s))
           [] OTHER -> JSONDecodeError
    ELSE IF text[1] = P("[") /\ text[Len(text)] = P("]")
    THEN IF Len(text) = 2 THEN Decoded(PyList(<<>>)) ELSE ListOf(ParseList(Inner(text)))
    ELSE IF text[1] = P("{") /\ text[Len(text)] = P("}")
    THEN IF Len(text) = 2 THEN Decoded(PyDict(<<>>))
         ELSE DictOf(ParsePairs(Inner(text), <<>>))
    ELSE JSONDecodeError

\* a cell of a *_json column: a str holding JSON text, a dict, or anything else
StrCell(text) == [kind |-> "str", text |-> text, d |-> <<>>]
DictCell(d) == [kind |-> "dict", text |-> <<>>, d |-> d]
OtherCell == [kind |-> "other", text |-> <<>>, d |-> <<>>]

-----------------------------------------------------------------------------
(* The store: two collections of documents *)

SubmissionDoc(n, createdAt, sessionId, fullDataJson) ==
    [n |-> n, createdAt |-> createdAt, sessionId |-> sessionId,
     fullDataJson |-> fullDataJson]

EventDoc(n, createdAt, sessionId, eventType, eventData) ==
    [n |-> n, createdAt |-> createdAt, sessionId |-> sessionId,
     eventType |-> eventType, eventData |-> eventData]

\* Firestore's order of values of different types: null < number < timestamp < string
TypeRank(v) ==
    CASE v.t = "None" -> 0
      [] v.t = "int" -> 1
      [] v.t = "datetime" -> 2
      [] OTHER -> 3

\* a comes strictly before b in direction DESCENDING
Before(a, b) ==
    \/ TypeRank(a) > TypeRank(b)
    \/ TypeRank(a) = TypeRank(b) /\ a.n > b.n

\* x goes in front of the first document it comes strictly before
RECURSIVE InsertDesc(_, _)
InsertDesc(x, sorted) ==
    IF sorted = <<>> THEN <<x>>
    ELSE IF Before(x.createdAt, sorted[1].createdAt) THEN <<x>> \o sorted
    ELSE <<sorted[1]>> \o InsertDesc(x, Tail(sorted))

RECURSIVE OrderByCreatedAtDesc(_)
OrderByCreatedAtDesc(docs) ==
    IF docs = <<>> THEN <<>>
    ELSE InsertDesc(docs[Len(docs)], OrderByCreatedAtDesc(SubSeq(docs, 1, Len(docs) - 1)))

\* number of records of a sequence of runs
RECURSIVE Count(_)
Count(runs) == IF runs = <<>> THEN 0 ELSE runs[1].n + Count(Tail(runs))

\* the stream of a query that has no .limit
Unlimited(runs, k) == runs

\* .limit(k)
RECURSIVE Limit(_, _)
Limit(runs, k) ==
    IF runs = <<>> \/ k = 0 THEN <<>>
    ELSE IF runs[1].n <= k THEN <<runs[1]>> \o Limit(Tail(runs), k - runs[1].n)
    ELSE <<[runs[1] EXCEPT !.n = k]>>

\* collection.order_by('createdAt', direction=DESCENDING).limit(1000).stream():
\* ordering by a field leaves out the documents that do not have the field
Query(docs) ==
    Limit(OrderByCreatedAtDesc(SelectSeq(docs, LAMBDA doc : doc.createdAt.t # "absent")),
          QueryLimit)

-----------------------------------------------------------------------------
(* load_firestore_data *)

\* bool(v)
Truthy(v) ==
    CASE v.t = "None" -> FALSE
      [] v.t = "int" -> v.n # 0
      [] v.t = "str" -> v.s # ""
      [] v.t = "list" -> v.l # <<>>
      [] v.t = "dict" -> v.d # <<>>
      [] OTHER -> TRUE

\* created_at of a document: createdAt.replace(tzinfo=None), or datetime.now();
\* a createdAt that is not a timestamp has no such replace
CreatedAt(doc, now) ==
    IF doc.createdAt.t # "absent" /\ Truthy(doc.createdAt)
    THEN IF doc.createdAt.t = "datetime"
         THEN [raised |-> FALSE, at |-> doc.createdAt.n]
         ELSE [raised |-> TRUE, at |-> 0]
    ELSE [raised |-> FALSE, at |-> now]

\* doc_data.get(key, default)
FieldOr(v, default) == IF v.t = "absent" THEN default ELSE v

Raised(error) == [raised |-> TRUE, error |-> error, row |-> <<>>]
Row(row) == [raised |-> FALSE, error |-> "", row |-> <<row>>]

SubmissionRow(doc, at, js) ==
    IF at.raised THEN Raised("replace")
    ELSE IF js.raised THEN Raised("not JSON serializable")
    ELSE Row([n |-> doc.n, created_at |-> at.at,
              session_id |-> FieldOr(doc.sessionId, PyStr("")).s,
              full_data_json |-> StrCell(js.text)])

\* the body of the loop over submissions_docs
FlattenSubmission(doc, now) ==
    SubmissionRow(doc, CreatedAt(doc, now),
                  json_dumps(FieldOr(doc.fullDataJson, PyDict(<<>>))))

EventRow(doc, at, js) ==
    IF at.raised THEN Raised("replace")
    ELSE IF js.raised THEN Raised("not JSON serializable")
    ELSE Row([n |-> doc.n, created_at |-> at.at,
              session_id |-> FieldOr(doc.sessionId, PyStr("")).s,
              event_type |-> FieldOr(doc.eventType, PyStr("")).s,
              event_data_json |-> StrCell(js.text)])

\* the body of the loop over events_docs
FlattenEvent(doc, now) ==
    EventRow(doc, CreatedAt(doc, now), json_dumps(FieldOr(doc.eventData, PyDict(<<>>))))

Flatten(doc, now, collection) ==
    IF collection = "submissions" THEN FlattenSubmission(doc, now)
    ELSE FlattenEvent(doc, now)

Rows(r, rest) ==
    IF r.raised THEN [raised |-> TRUE, error |-> r.error, rows |-> <<>>]
    ELSE IF rest.raised THEN rest
    ELSE [raised |-> FALSE, error |-> "", rows |-> r.row \o rest.rows]

\* for doc in docs: ...data.append({...}); the first record that raises ends the loop
RECURSIVE FlattenAll(_, _, _)
FlattenAll(docs, now, collection) ==
    IF docs = <<>> THEN [raised |-> FALSE, error |-> "", rows |-> <<>>]
    ELSE Rows(Flatten(docs[1], now, collection), FlattenAll(Tail(docs), now, collection))

\* init_firebase under @st.cache_resource: the client once it was returned;
\* an exception of the initialisation is reported and ends in st.stop(), which
\* stops the script run (its exception is no Exception); a failure to list the
\* collections is only a warning
init_firebase(d, health) ==
    IF d = "client" THEN [stop |-> FALSE, db |-> "client"]
    ELSE IF health = "init" THEN [stop |-> TRUE, db |-> d]
    ELSE [stop |-> FALSE, db |-> "client"]

CacheInfo(subs, events, now) ==
    [has_error |-> FALSE, error |-> "", submissions_count |-> Count(subs),
     events_count |-> Count(events), last_updated |-> now]

\* an except clause that returns the empty frames and an empty diagnostic
CaughtQuietly(error) ==
    [df_subs |-> <<>>, df_events |-> <<>>,
     cache_info |-> [has_error |-> FALSE, error |-> "", submissions_count |-> 0,
                     events_count |-> 0, last_updated |-> 0]]

\* except Exception as e: return pd.DataFrame(), pd.DataFrame(), {'error': str(e)}
Caught(error) ==
    [df_subs |-> <<>>, df_events |-> <<>>,
     cache_info |-> [has_error |-> TRUE, error |-> error, submissions_count |-> 0,
                     events_count |-> 0, last_updated |-> 0]]

NoValue == [df_subs |-> <<>>, df_events |-> <<>>,
            cache_info |-> [has_error |-> FALSE, error |-> "", submissions_count |-> 0,
                            events_count |-> 0, last_updated |-> 0]]

Streamed(sdocs, edocs) == [submissions |-> sdocs, events |-> edocs]

Loaded(stop, d, queried, streamed, value) ==
    [stop |-> stop, db |-> d, queried |-> queried, streamed |-> streamed, value |-> value]

LoadBody(ini, health, sdocs, subs, edocs, events, now) ==
    IF ini.stop THEN Loaded(TRUE, ini.db, <<>>, Streamed(<<>>, <<>>), NoValue)
    ELSE IF health = "submissions"
    THEN Loaded(FALSE, ini.db, <<"submissions">>, Streamed(<<>>, <<>>),
                Caught("submissions unavailable"))
    ELSE IF subs.raised
    THEN Loaded(FALSE, ini.db, <<"submissions">>, Streamed(sdocs, <<>>), Caught(subs.error))
    ELSE IF health = "events"
    THEN Loaded(FALSE, ini.db, <<"submissions", "events">>, Streamed(sdocs, <<>>),
                Caught("events unavailable"))
    ELSE IF events.raised
    THEN Loaded(FALSE, ini.db, <<"submissions", "events">>, Streamed(sdocs, edocs),
                Caught(events.error))
    ELSE Loaded(FALSE, ini.db, <<"submissions", "events">>, Streamed(sdocs, edocs),
                [df_subs |-> subs.rows, df_events |-> events.rows,
                 cache_info |-> CacheInfo(subs.rows, events.rows, now)])

\* the body of load_firestore_data: stop = TRUE when st.stop() went through it;
\* pd.to_datetime leaves the datetimes of created_at as they are
load_firestore_data(d, e, now) ==
    LoadBody(init_firebase(d, e.health), e.health,
             Query(e.submissions), FlattenAll(Query(e.submissions), now, "submissions"),
             Query(e.events), FlattenAll(Query(e.events), now, "events"), now)

\* @st.cache_data without ttl: the stored result is served for ever
FreshForever(c, now) == c.full

\* @st.cache_data(ttl=60): the stored result is served while it is younger than ttl
Fresh(c, now) == c.full /\ now - c.at < TTL

EmptyCache == [full |-> FALSE, at |-> 0, value |-> NoValue]

Hit(c, d) ==
    [stop |-> FALSE, hit |-> TRUE, db |-> d, cache |-> c, queried |-> <<>>,
     streamed |-> Streamed(<<>>, <<>>), value |-> c.value]

\* a cache that stores a returned result only when it carries no error
MissUnlessError(r, now) ==
    [stop |-> r.stop, hit |-> FALSE, db |-> r.db,
     cache |-> IF r.stop \/ r.value.cache_info.has_error THEN EmptyCache
               ELSE [full |-> TRUE, at |-> now, value |-> r.value],
     queried |-> r.queried, streamed |-> r.streamed, value |-> r.value]

\* a result that was returned is stored; st.stop() leaves nothing to store
Miss(r, now) ==
    [stop |-> r.stop, hit |-> FALSE, db |-> r.db,
     cache |-> IF r.stop THEN EmptyCache ELSE [full |-> TRUE, at |-> now, value |-> r.value],
     queried |-> r.queried, streamed |-> r.streamed, value |-> r.value]

\* load_firestore_data() as the script calls it, through the cache
CachedLoad(c, d, e, now) ==
    IF Fresh(c, now) THEN Hit(c, d) ELSE Miss(load_firestore_data(d, e, now), now)

-----------------------------------------------------------------------------
(* DataFrame operations *)

\* df.empty
Empty(df) == Count(df) = 0

\* Series.nunique() of a column of strings
NUnique(values) == Cardinality(values)

SessionIds(df) == {df[i].session_id : i \in 1..Len(df)}

\* Series.max() of created_at; of no rows it is NaT, which is not formatted
MaxCreatedAt(df) ==
    IF df = <<>> THEN [raised |-> TRUE, v |-> 0]
    ELSE [raised |-> FALSE,
          v |-> CHOOSE m \in {df[i].created_at : i \in 1..Len(df)} :
                    \A j \in 1..Len(df) : df[j].created_at <= m]

\* datetime.strftime('%Y-%m-%d %H:%M'): the minute the second lies in
Strftime(t) == t \div SecondsPerMinute

\* the elements of a finite set of integers in ascending order
RECURSIVE Ascending(_)
Ascending(set) ==
    IF set = {} THEN <<>>
    ELSE <<CHOOSE x \in set : \A y \in set : x <= y>>
             \o Ascending(set \ {CHOOSE x \in set : \A y \in set : x <= y})

\* x placed in the sorted sequence rest, behind the elements that are not greater
Placed(x, rest) ==
    SelectSeq(rest, LAMBDA r : r.key <= x.key) \o <<x>>
        \o SelectSeq(rest, LAMBDA r : r.key > x.key)

RECURSIVE SortKeyed(_)
SortKeyed(keyed) ==
    IF keyed = <<>> THEN <<>>
    ELSE Placed(keyed[Len(keyed)], SortKeyed(SubSeq(keyed, 1, Len(keyed) - 1)))

Unkeyed(sorted) == [i \in 1..Len(sorted) |-> sorted[i].row]

\* sort_values: the rows in ascending order of their keys (a stable sort)
SortValues(rows, keys) ==
    Unkeyed(SortKeyed([i \in 1..Len(rows) |-> [key |-> keys[i], row |-> rows[i]]]))

\* sort_values('Step')
SortByStep(rows) == SortValues(rows, [i \in 1..Len(rows) |-> rows[i].Step])

\* sort_values('created_at', ascending=False)
SortNewestFirst(rows) ==
    SortValues(rows, [i \in 1..Len(rows) |-> 0 - rows[i].created_at])

\* the aggregations among names that are run on rows when rows is empty
OnEmpty(names, rows) == IF rows = <<>> THEN names ELSE {}

-----------------------------------------------------------------------------
(* Key metrics (app.py 207-223) *)

total_leads(df_subs) == IF ~Empty(df_subs) THEN Count(df_subs) ELSE 0

unique_sessions(df_events) ==
    IF ~Empty(df_events) THEN NUnique(SessionIds(df_events)) ELSE 0

\* a / b * 100 as the fraction num/den; ZeroDivisionError when b = 0
Percent(a, b) ==
    IF b = 0 THEN [raised |-> TRUE, num |-> 0, den |-> 1]
    ELSE [raised |-> FALSE, num |-> a * 100, den |-> b]

\* the quotient without the test of unique_sessions
conversion_rate_unguarded(leads, sessions) == Percent(leads, sessions)

conversion_rate(leads, sessions) ==
    IF sessions > 0 THEN Percent(leads, sessions)
    ELSE [raised |-> FALSE, num |-> 0, den |-> 1]

Formatted(m, onEmpty) ==
    [raised |-> m.raised, na |-> FALSE, minute |-> Strftime(m.v), ran |-> {"max"},
     onEmpty |-> onEmpty]

NotAvailable == [raised |-> FALSE, na |-> TRUE, minute |-> 0, ran |-> {}, onEmpty |-> {}]

\* the maximum without the test of df_subs.empty
last_lead_unguarded(df_subs) ==
    Formatted(MaxCreatedAt(df_subs), OnEmpty({"max"}, df_subs))

\* the frames the loader builds carry the column created_at whenever they have rows
last_lead(df_subs) ==
    IF ~Empty(df_subs) THEN Formatted(MaxCreatedAt(df_subs), OnEmpty({"max"}, df_subs))
    ELSE NotAvailable

-----------------------------------------------------------------------------
(* tab1: funnel and event distribution (app.py 228-270) *)

\* data in the try blocks of get_step and extract_financials: json.loads of a
\* str, a dict as it is, {} for anything else
CellData(cell) ==
    IF cell.kind = "str" THEN json_loads(cell.text)
    ELSE IF cell.kind = "dict" THEN Decoded(PyDict(cell.d))
    ELSE Decoded(PyDict(<<>>))

\* data.get('step', 0); only a dict has get
StepOf(data) ==
    IF ~data.ok THEN [raised |-> TRUE, v |-> 0]
    ELSE IF data.v.t # "dict" THEN [raised |-> TRUE, v |-> 0]
    ELSE [raised |-> FALSE, v |-> DictGet(data.v.d, "step", 0)]

\* the try block of get_step
get_step_try(cell) == StepOf(CellData(cell))

ExceptZero(r) == IF r.raised THEN [raised |-> FALSE, v |-> 0] ELSE r

\* get_step without its except clause
get_step_unguarded(cell) == get_step_try(cell)

\* try: ... except: return 0
get_step(cell) == ExceptZero(get_step_try(cell))

\* groupby(...)['session_id'].count(): the events of a step, not its sessions
GroupRowsCount(step_events, step_num, steps) ==
    [k \in 1..Len(steps) |->
        [Step |-> steps[k],
         Users |-> Cardinality({j \in 1..Len(step_events) : step_num[j] = steps[k]})]]

GroupRows(step_events, step_num, steps) ==
    [k \in 1..Len(steps) |->
        [Step |-> steps[k],
         Users |-> NUnique({step_events[i].session_id :
                               i \in {j \in 1..Len(step_events) : step_num[j] = steps[k]}})]]

\* step_events.groupby('step_num')['session_id'].nunique().reset_index():
\* one row per step, in ascending order of the step
GroupBySessions(step_events, step_num) ==
    GroupRows(step_events, step_num,
              Ascending({step_num[i] : i \in 1..Len(step_events)}))

Section(outputs, data, ran, onEmpty, raised) ==
    [outputs |-> outputs, data |-> data, ran |-> ran, onEmpty |-> onEmpty,
     raised |-> raised]

NotRun == Section(<<>>, <<>>, {}, {}, FALSE)

Info == Section(<<"info">>, <<>>, {}, {}, FALSE)

\* step_events['event_data_json'].apply(get_step)
StepNums(step_events) ==
    [i \in 1..Len(step_events) |-> get_step(step_events[i].event_data_json)]

\* groupby(...).nunique(), columns Step and Users, sort_values('Step')
FunnelData(step_events, got) ==
    SortByStep(GroupBySessions(step_events, [i \in 1..Len(got) |-> got[i].v]))

FunnelChart(step_events, got, funnel_data) ==
    IF \E i \in 1..Len(got) : got[i].raised
    THEN Section(<<>>, <<>>, {"apply"}, OnEmpty({"apply"}, step_events), TRUE)
    ELSE IF funnel_data # <<>>
    THEN Section(<<"chart">>, funnel_data, {"apply", "groupby"},
                 OnEmpty({"apply", "groupby"}, step_events), FALSE)
    ELSE Section(<<"info">>, <<>>, {"apply", "groupby"},
                 OnEmpty({"apply", "groupby"}, step_events), FALSE)

FunnelOf(step_events, got) == FunnelChart(step_events, got, FunnelData(step_events, got))

\* the funnel without the test of step_events.empty
FunnelStepsUnguarded(step_events) == FunnelOf(step_events, StepNums(step_events))

\* if not step_events.empty: ... else: "No step view events found yet."
FunnelSteps(step_events) ==
    IF ~Empty(step_events) THEN FunnelOf(step_events, StepNums(step_events)) ELSE Info

\* if not df_events.empty: ... else: "No event data available yet."
Funnel(df_events) ==
    IF ~Empty(df_events)
    THEN FunnelSteps(SelectSeq(df_events, LAMBDA e : e.event_type = "step_view"))
    ELSE Info

\* px.pie(df_events, names='event_type'): the number of events of each type
EventDistribution(df_events) ==
    IF ~Empty(df_events)
    THEN Section(<<"chart">>,
                 {[event_type |-> t,
                   count |-> Count(SelectSeq(df_events, LAMBDA e : e.event_type = t))] :
                      t \in {df_events[i].event_type : i \in 1..Len(df_events)}},
                 {"pie"}, OnEmpty({"pie"}, df_events), FALSE)
    ELSE Info

-----------------------------------------------------------------------------
(* tab2: financial profile (app.py 272-317) *)

Financials(pv, mb, cp) ==
    [PropertyValue |-> pv, MortgageBalance |-> mb, CurrentPayment |-> cp]

\* the three data.get of extract_financials; only a dict has get
FinancialsOf(data) ==
    IF ~data.ok THEN [raised |-> TRUE, v |-> Financials(0, 0, 0)]
    ELSE IF data.v.t # "dict" THEN [raised |-> TRUE, v |-> Financials(0, 0, 0)]
    ELSE [raised |-> FALSE,
          v |-> Financials(DictGet(data.v.d, "propertyValue", 0),
                           DictGet(data.v.d, "mortgageBalance", 0),
                           DictGet(data.v.d, "currentPayment",
                                   DictGet(data.v.d, "mortgagePayment", 0)))]

\* the try block of extract_financials
extract_financials_try(cell) == FinancialsOf(CellData(cell))

ExceptZeros(r) == IF r.raised THEN [raised |-> FALSE, v |-> Financials(0, 0, 0)] ELSE r

\* extract_financials without its except clause
extract_financials_unguarded(cell) == extract_financials_try(cell)

\* try: ... except Exception: the zero record
extract_financials(cell) == ExceptZeros(extract_financials_try(cell))

\* (df_financials > 0).any(axis=1)
Informative(f) == f.PropertyValue > 0 \/ f.MortgageBalance > 0 \/ f.CurrentPayment > 0

\* df_financials[(df_financials > 0).any(axis=1)]
Clean(df_financials) == SelectSeq(df_financials, LAMBDA r : Informative(r.v))

RECURSIVE SumSeq(_)
SumSeq(xs) == IF xs = <<>> THEN 0 ELSE xs[1] + SumSeq(Tail(xs))

\* Series.sum() of a column
Sum(rows, column) == SumSeq([i \in 1..Len(rows) |-> rows[i].n * rows[i].v[column]])

\* with col_f1: histogram or message
col_f1(df_financials_clean) ==
    IF Sum(df_financials_clean, "PropertyValue") > 0 THEN "chart" ELSE "info"

\* with col_f2: scatter or message
col_f2(df_financials_clean) ==
    IF /\ Sum(df_financials_clean, "MortgageBalance") > 0
       /\ Sum(df_financials_clean, "CurrentPayment") > 0
    THEN "chart" ELSE "info"

\* df_subs['full_data_json'].apply(extract_financials)
Extracted(df_subs) ==
    [i \in 1..Len(df_subs) |-> extract_financials(df_subs[i].full_data_json)]

\* .apply(pd.Series): one row of three columns per record
DfFinancials(df_subs, got) ==
    [i \in 1..Len(df_subs) |-> [n |-> df_subs[i].n, v |-> got[i].v]]

Tables(df_financials, df_financials_clean) ==
    [df_financials |-> df_financials, df_financials_clean |-> df_financials_clean]

FinancialCharts(df_subs, got, df_financials, df_financials_clean) ==
    IF \E i \in 1..Len(got) : got[i].raised
    THEN Section(<<>>, <<>>, {"apply"}, OnEmpty({"apply"}, df_subs), TRUE)
    ELSE IF ~Empty(df_financials_clean)
    THEN Section(<<col_f1(df_financials_clean), col_f2(df_financials_clean)>>,
                 Tables(df_financials, df_financials_clean), {"apply", "sum"},
                 OnEmpty({"apply"}, df_subs) \cup OnEmpty({"sum"}, df_financials_clean),
                 FALSE)
    ELSE Section(<<"info">>, Tables(df_financials, df_financials_clean), {"apply"},
                 OnEmpty({"apply"}, df_subs), FALSE)

FinancialOf(df_subs, got) ==
    FinancialCharts(df_subs, got, DfFinancials(df_subs, got),
                    Clean(DfFinancials(df_subs, got)))

\* if not df_subs.empty and 'full_data_json' in df_subs.columns: ... else: message
FinancialProfile(df_subs) ==
    IF ~Empty(df_subs) THEN FinancialOf(df_subs, Extracted(df_subs)) ELSE Info

-----------------------------------------------------------------------------
(* tab3: raw data (app.py 319-346) *)

\* st.dataframe(df[...].sort_values('created_at', ascending=False)), or a message
Recent(df) ==
    IF ~Empty(df)
    THEN Section(<<"table">>, SortNewestFirst(df), {"sort_values"},
                 OnEmpty({"sort_values"}, df), FALSE)
    ELSE Info

-----------------------------------------------------------------------------
(* The page below the load (app.py 189-350) *)

\* statements run in order; an exception that nothing catches ends the script
\* run, so what follows the raising statement is not run
Page(leads, sessions, rate, last, s1, s2, s3, s4, s5) ==
    [status |-> IF \/ rate.raised \/ last.raised \/ s1.raised \/ s2.raised
                   \/ s3.raised \/ s4.raised \/ s5.raised
                THEN "exception" ELSE "footer",
     total_leads |-> leads,
     unique_sessions |-> sessions,
     conversion_rate |-> [num |-> rate.num, den |-> rate.den],
     last_lead |-> [na |-> last.na, minute |-> last.minute],
     metrics_on_empty |-> last.onEmpty,
     funnel |-> IF rate.raised \/ last.raised THEN NotRun ELSE s1,
     distribution |-> IF rate.raised \/ last.raised \/ s1.raised THEN NotRun ELSE s2,
     financial |-> IF rate.raised \/ last.raised \/ s1.raised \/ s2.raised
                   THEN NotRun ELSE s3,
     recent_submissions |-> IF \/ rate.raised \/ last.raised \/ s1.raised \/ s2.raised
                               \/ s3.raised
                            THEN NotRun ELSE s4,
     recent_events |-> IF \/ rate.raised \/ last.raised \/ s1.raised \/ s2.raised
                          \/ s3.raised \/ s4.raised
                       THEN NotRun ELSE s5]

Render(f) ==
    Page(total_leads(f.df_subs), unique_sessions(f.df_events),
         conversion_rate(total_leads(f.df_subs), unique_sessions(f.df_events)),
         last_lead(f.df_subs),
         Funnel(f.df_events), EventDistribution(f.df_events),
         FinancialProfile(f.df_subs), Recent(f.df_subs), Recent(f.df_events))

\* no page: before the first run, or a run that st.stop() ended in the load
NoPage(status) ==
    [status |-> status, total_leads |-> 0, unique_sessions |-> 0,
     conversion_rate |-> [num |-> 0, den |-> 1],
     last_lead |-> [na |-> TRUE, minute |-> 0], metrics_on_empty |-> {},
     funnel |-> NotRun, distribution |-> NotRun, financial |-> NotRun,
     recent_submissions |-> NotRun, recent_events |-> NotRun]

NoFrames == [df_subs |-> <<>>, df_events |-> <<>>]

NoLoad ==
    [status |-> "none", hit |-> FALSE, queried |-> <<>>,
     streamed |-> [submissions |-> <<>>, events |-> <<>>],
     cache_info |-> NoValue.cache_info]

-----------------------------------------------------------------------------
(* Inputs *)

Health == {"ok", "list", "init", "submissions", "events"}

Property == <<KV("propertyValue", 300000), KV("mortgageBalance", 150000)>>
Payments == <<KV("currentPayment", 2), KV("mortgagePayment", 9)>>

SubDocs ==
    { SubmissionDoc(1, PyTime(59), PyStr("a"), PyDict(Property)),
      SubmissionDoc(QueryLimit, PyTime(61), Absent, Absent),
      SubmissionDoc(1, PyNone, PyStr("b"), PyDict(Payments)),
      SubmissionDoc(1, Absent, PyStr("a"), PyNone),
      SubmissionDoc(1, PyStr("2024-01-01"), PyStr("a"), Absent),
      SubmissionDoc(1, PyTime(125), PyStr("b"), PyTime(125)) }

EventDocs ==
    { EventDoc(1, PyTime(59), PyStr("a"), PyStr("step_view"), PyDict(<<KV("step", 1)>>)),
      EventDoc(1, PyTime(61), PyStr("b"), PyStr("step_view"), PyDict(<<KV("step", 2)>>)),
      EventDoc(QueryLimit, PyTime(61), PyStr("a"), PyStr("calc"), Absent),
      EventDoc(1, PyNone, Absent, PyStr("step_view"), PyNone),
      EventDoc(1, Absent, PyStr("b"), Absent, PyList(<<1, 2>>)),
      EventDoc(1, PyTime(125), PyStr("b"), PyStr("step_view"), PyTime(125)) }

\* the sequences of at most k elements of set
RECURSIVE SeqsUpTo(_, _)
SeqsUpTo(set, k) ==
    IF k = 0 THEN {<<>>}
    ELSE LET shorter == SeqsUpTo(set, k - 1)
         IN shorter \cup {Append(q, x) : q \in shorter, x \in set}

FewSubmissions ==
    { <<>>,
      <<SubmissionDoc(1, PyTime(59), PyStr("a"), PyDict(Property))>>,
      <<SubmissionDoc(1, PyNone, PyStr("b"), PyDict(Payments)),
        SubmissionDoc(1, PyTime(59), PyStr("a"), PyDict(Property))>> }

FewEvents ==
    { <<>>,
      <<EventDoc(QueryLimit, PyTime(61), PyStr("a"), PyStr("calc"), Absent)>>,
      <<EventDoc(1, PyTime(59), PyStr("a"), PyStr("step_view"), PyDict(<<KV("step", 1)>>)),
        EventDoc(1, PyTime(61), PyStr("b"), PyStr("step_view"), PyDict(<<KV("step", 2)>>))>> }

Stores(subs, events) == {[submissions |-> s, events |-> e] : s \in subs, e \in events}

Env(store, health) ==
    [health |-> health, submissions |-> store.submissions, events |-> store.events]

\* the store contents a single load is tried on
WideStores ==
    Stores(SeqsUpTo(SubDocs, MaxRuns), FewEvents)
        \cup Stores(FewSubmissions, SeqsUpTo(EventDocs, MaxRuns))

\* the store contents the store moves between while the dashboard is refreshed
FewStores == Stores(FewSubmissions, {<<>>}) \cup Stores({<<>>}, FewEvents)

ClockValues == {k * TickSeconds : k \in 0..(MaxClock \div TickSeconds)}

-----------------------------------------------------------------------------
(* The dashboard: script runs against a changing store as time passes *)

Init ==
    /\ clock = 0
    /\ env \in {Env(s, h) : s \in FewStores, h \in Health}
    /\ db = "none"
    /\ cache = EmptyCache
    /\ load = NoLoad
    /\ frames = NoFrames
    /\ page = NoPage("none")

\* time passes
Tick ==
    /\ clock + TickSeconds <= MaxClock
    /\ clock' = clock + TickSeconds
    /\ UNCHANGED <<env, db, cache, load, frames, page>>

\* the ingestion process writes to the store, or the store's condition changes
Environment ==
    /\ \E s \in FewStores, h \in Health : env' = Env(s, h)
    /\ env' # env
    /\ UNCHANGED <<clock, db, cache, load, frames, page>>

\* what a run leaves behind, r being what load_firestore_data() gave it
Ran(r) ==
    /\ db' = r.db
    /\ cache' = r.cache
    /\ load' = [status |-> IF r.stop THEN "stopped" ELSE "returned",
                hit |-> r.hit, queried |-> r.queried, streamed |-> r.streamed,
                cache_info |-> r.value.cache_info]
    /\ frames' = IF r.stop THEN NoFrames
                 ELSE [df_subs |-> r.value.df_subs, df_events |-> r.value.df_events]
    /\ page' = IF r.stop THEN NoPage("stopped")
               ELSE Render([df_subs |-> r.value.df_subs, df_events |-> r.value.df_events])

\* one run of the script, top to bottom (a dashboard refresh)
Refresh ==
    /\ Ran(CachedLoad(cache, db, env, clock))
    /\ UNCHANGED <<clock, env>>

Next == Tick \/ Environment \/ Refresh

Spec == Init /\ [][Next]_vars

-----------------------------------------------------------------------------
(* One load of any store content *)

InitLoad ==
    /\ clock \in {0, MaxClock}
    /\ env \in {Env(s, h) : s \in WideStores, h \in Health}
    /\ db \in {"none", "client"}
    /\ cache = EmptyCache
    /\ load = NoLoad
    /\ frames = NoFrames
    /\ page = NoPage("none")

NextLoad == Refresh

SpecLoad == InitLoad /\ [][NextLoad]_vars

-----------------------------------------------------------------------------
(* The page of any pair of frames, whatever wrote their JSON columns *)

ObjectText(d) == <<P("{")>> \o DumpPairs(d) \o <<P("}")>>

\* not parsable: '{bad', '', '{"step":}'
MalformedTexts ==
    { <<P("{"), S("bad")>>, <<>>, <<P("{"), S("step"), P(":"), P("}")>> }

\* parsable, no object: 'null', '[1,2]', '3', '"step"'
NonObjectTexts ==
    { <<TNull>>, <<P("["), N(1), P(","), N(2), P("]")>>, <<N(3)>>, <<S("step")>> }

\* objects without the key step: '{}', '{"other":1}'
NoStepTexts == { ObjectText(<<>>), ObjectText(<<KV("other", 1)>>) }

Steps == {0, 1, 2}

\* objects with step k: '{"step":k}', '{"other":1,"step":k}'
StepTexts(k) ==
    { ObjectText(<<KV("step", k)>>), ObjectText(<<KV("other", 1), KV("step", k)>>) }

EventCells ==
    {StrCell(t) : t \in MalformedTexts \cup NonObjectTexts \cup NoStepTexts
                          \cup UNION {StepTexts(k) : k \in Steps}}
        \cup {DictCell(<<KV("step", 1)>>), DictCell(<<>>), OtherCell}

EventRows ==
    {[n |-> 1, created_at |-> 59, session_id |-> sid, event_type |-> "step_view",
      event_data_json |-> c] : sid \in {"a", "b"}, c \in EventCells}
        \cup {[n |-> 1, created_at |-> 61, session_id |-> "b", event_type |-> "calc",
               event_data_json |-> StrCell(t)] :
                 t \in {ObjectText(<<KV("step", 2)>>), <<P("{"), S("bad")>>}}

FinancialDicts ==
    { <<>>,
      Property,
      Payments,
      <<KV("mortgagePayment", 9)>>,
      <<KV("currentPayment", 0), KV("mortgagePayment", 9)>>,
      <<KV("propertyValue", 0 - 5)>>,
      <<KV("mortgageBalance", 3), KV("currentPayment", 4)>> }

FinancialCells ==
    {StrCell(ObjectText(d)) : d \in FinancialDicts}
        \cup {StrCell(t) : t \in {<<TNull>>, <<P("["), N(1), P(","), N(2), P("]")>>,
                                  <<P("{"), S("bad")>>}}
        \cup {DictCell(Property), OtherCell}

SubmissionRows ==
    {[n |-> n, created_at |-> 59, session_id |-> "a", full_data_json |-> c] :
        n \in {1, 2}, c \in FinancialCells}

OneEvent ==
    <<[n |-> 1, created_at |-> 59, session_id |-> "a", event_type |-> "step_view",
       event_data_json |-> StrCell(ObjectText(<<KV("step", 1)>>))]>>

OneSubmission ==
    <<[n |-> 1, created_at |-> 61, session_id |-> "a",
       full_data_json |-> StrCell(ObjectText(Property))]>>

PageFrames ==
    {[df_subs |-> sub, df_events |-> ev] :
        sub \in {<<>>, OneSubmission}, ev \in SeqsUpTo(EventRows, MaxRows)}
    \cup {[df_subs |-> sub, df_events |-> ev] :
             sub \in SeqsUpTo(SubmissionRows, MaxRows), ev \in {<<>>, OneEvent}}

InitPage ==
    /\ clock = 0
    /\ env = Env([submissions |-> <<>>, events |-> <<>>], "ok")
    /\ db = "none"
    /\ cache = EmptyCache
    /\ load = NoLoad
    /\ frames \in PageFrames
    /\ page = NoPage("none")

\* the script from the dashboard header to the footer, on frames
RenderPage ==
    /\ page.status = "none"
    /\ page' = Render(frames)
    /\ UNCHANGED <<clock, env, db, cache, load, frames>>

NextPage == RenderPage

SpecPage == InitPage /\ [][NextPage]_vars

-----------------------------------------------------------------------------
(* Properties of one load (SpecLoad) *)

\* the last run went into load_firestore_data (it was not served from the cache)
RanLoader == load.status # "none" /\ ~load.hit

\* a stored createdAt that has no replace(tzinfo=None); a payload json.dumps rejects
BadCreatedAt(doc) == doc.createdAt.t = "str" /\ doc.createdAt.s # ""
BadPayload(v) == v.t = "datetime"

\* init_firebase had no client to return and its initialisation raised
InitFailed == RanLoader /\ env.health = "init" /\ db = "none"

QueryFailed == RanLoader /\ ~InitFailed /\ env.health \in {"submissions", "events"}

FlattenFailed ==
    /\ RanLoader
    /\ ~InitFailed
    /\ \/ \E i \in 1..Len(load.streamed.submissions) :
             \/ BadCreatedAt(load.streamed.submissions[i])
             \/ BadPayload(load.streamed.submissions[i].fullDataJson)
       \/ \E i \in 1..Len(load.streamed.events) :
             \/ BadCreatedAt(load.streamed.events[i])
             \/ BadPayload(load.streamed.events[i].eventData)

\* the caller got the empty pair and a diagnostic with the error text, and the
\* run went on to the end of the page
EndedInLoader ==
    /\ load.status = "returned"
    /\ frames.df_subs = <<>> /\ frames.df_events = <<>>
    /\ load.cache_info.has_error /\ load.cache_info.error # ""
    /\ page.status = "footer"

\* C1 as stated: every failure of a load (initialisation, query, flattening) ends
\* inside load_firestore_data with the empty pair and a diagnostic, and never
\* stops the run.
C1_AsStated == (InitFailed \/ QueryFailed \/ FlattenFailed) => EndedInLoader

\* C1: a failed query and a failure while flattening a record end inside
\* load_firestore_data: the caller receives the empty pair and a diagnostic with
\* the error text and the run goes on to the footer.  A failure to initialise the
\* connection does not: init_firebase ends it with st.stop(), the run stops there,
\* the caller receives nothing, nothing is stored and no page is rendered.  A load
\* without any of these failures returns without an error diagnostic.
C1_FailuresOfALoad ==
    /\ (QueryFailed \/ FlattenFailed) => EndedInLoader
    /\ InitFailed =>
          /\ load.status = "stopped"
          /\ frames = NoFrames
          /\ ~cache.full
          /\ page.status = "stopped"
    /\ (RanLoader /\ ~InitFailed /\ ~QueryFailed /\ ~FlattenFailed) =>
          /\ load.status = "returned"
          /\ ~load.cache_info.has_error

C1_Witness ==
    /\ FlattenFailed
    /\ env.health = "ok"
    /\ BadPayload(load.streamed.submissions[Len(load.streamed.submissions)].fullDataJson)
    /\ EndedInLoader

NewestFirst(df) ==
    \A i, j \in 1..Len(df) : i < j => df[i].created_at >= df[j].created_at

LoadSucceeded == RanLoader /\ load.status = "returned" /\ ~load.cache_info.has_error

\* C2 as stated: each returned sequence has at most 1000 records and is ordered
\* newest-first by created_at, the records without a stored timestamp included.
C2_AsStated ==
    LoadSucceeded =>
        /\ Count(frames.df_subs) <= QueryLimit /\ NewestFirst(frames.df_subs)
        /\ Count(frames.df_events) <= QueryLimit /\ NewestFirst(frames.df_events)

Stored(doc) == doc.createdAt.t = "datetime"

WithCreatedAt(docs) == SelectSeq(docs, LAMBDA doc : doc.createdAt.t # "absent")

AtMost(a, b) == IF a <= b THEN a ELSE b

\* rows are the records of the stream docs, one row per document and in its order
AsStreamed(stored, docs, rows, now) ==
    /\ Len(rows) = Len(docs)
    /\ Count(rows) <= QueryLimit
    /\ Count(rows) = AtMost(Count(WithCreatedAt(stored)), QueryLimit)
    /\ \A i \in 1..Len(docs) :
          /\ docs[i].createdAt.t # "absent"
          /\ rows[i].created_at = IF Stored(docs[i]) THEN docs[i].createdAt.n ELSE now
    /\ \A i, j \in 1..Len(docs) :
          i < j =>
             /\ Stored(docs[i]) /\ Stored(docs[j]) => rows[i].created_at >= rows[j].created_at
             /\ ~Stored(docs[i]) => ~Stored(docs[j])

\* C2: each returned sequence has at most 1000 records, one per document of the
\* store's descending createdAt query and in that order.  Records with a stored
\* timestamp are newest-first among themselves; a record whose stored timestamp
\* is null gets created_at = now but stays behind every record with a timestamp,
\* so the sequence as a whole need not be ordered by created_at; a document
\* without a createdAt field is not returned at all.
C2_OrderOfTheStream ==
    LoadSucceeded =>
        /\ AsStreamed(env.submissions, load.streamed.submissions, frames.df_subs,
                      load.cache_info.last_updated)
        /\ AsStreamed(env.events, load.streamed.events, frames.df_events,
                      load.cache_info.last_updated)

C2_Witness ==
    /\ LoadSucceeded
    /\ Len(frames.df_subs) = 2
    /\ Stored(load.streamed.submissions[1])
    /\ load.streamed.submissions[2].createdAt.t = "None"
    /\ frames.df_subs[1].created_at < frames.df_subs[2].created_at
    /\ \E i \in 1..Len(env.events) : env.events[i].createdAt.t = "absent"

-----------------------------------------------------------------------------
(* Properties of the refreshes over time (Spec) *)

Unexpired == cache.full /\ clock - cache.at < TTL

-----------------------------------------------------------------------------
(* Properties of the page of given frames (SpecPage, SpecLoad) *)

Rendered == page.status \in {"footer", "exception"}

StepViews == {i \in 1..Len(frames.df_events) : frames.df_events[i].event_type = "step_view"}

\* event_data_json that is no JSON, no object, or an object without step
Fallback(cell) ==
    cell.kind = "str" /\ cell.text \in MalformedTexts \cup NonObjectTexts \cup NoStepTexts

\* the step an event stands for
StepExpected(cell) ==
    IF cell.kind = "str"
    THEN IF \E k \in Steps : cell.text \in StepTexts(k)
         THEN CHOOSE k \in Steps : cell.text \in StepTexts(k)
         ELSE 0
    ELSE IF cell.kind = "dict" /\ \E i \in 1..Len(cell.d) : cell.d[i].key = "step"
    THEN cell.d[CHOOSE i \in 1..Len(cell.d) : cell.d[i].key = "step"].val
    ELSE 0

SessionsAt(k) ==
    {frames.df_events[i].session_id :
        i \in {j \in StepViews : StepExpected(frames.df_events[j].event_data_json) = k}}

FunnelRows == {page.funnel.data[r] : r \in 1..Len(page.funnel.data)}

\* C4: a step_view event whose event_data_json is not parsable, is no object or
\* has no step key puts its session into the Step=0 row, nothing is raised, and
\* every other step_view event of the batch is counted under its own step.
C4_MalformedStepIsZero ==
    Rendered =>
        /\ page.status = "footer"
        /\ ~page.funnel.raised
        /\ \A i \in StepViews :
              /\ Fallback(frames.df_events[i].event_data_json) =>
                    /\ StepExpected(frames.df_events[i].event_data_json) = 0
                    /\ [Step |-> 0, Users |-> Cardinality(SessionsAt(0))] \in FunnelRows
                    /\ frames.df_events[i].session_id \in SessionsAt(0)
              /\ \E row \in FunnelRows :
                    /\ row.Step = StepExpected(frames.df_events[i].event_data_json)
                    /\ row.Users = Cardinality(SessionsAt(row.Step))

C4_Witness ==
    /\ page.status = "footer"
    /\ \E i, j \in StepViews :
          /\ frames.df_events[i].event_data_json.kind = "str"
          /\ frames.df_events[i].event_data_json.text \in MalformedTexts
          /\ frames.df_events[j].event_data_json.kind = "str"
          /\ frames.df_events[j].event_data_json.text \in StepTexts(2)
    /\ page.funnel.data = <<[Step |-> 0, Users |-> 1], [Step |-> 2, Users |-> 1]>>

\* C5: the funnel has exactly one row for each step extracted from a step_view
\* event, its Users is the number of distinct sessions among the step_view
\* events of that step, events of other types contribute nothing, the rows are in
\* strictly ascending order of Step, and without step_view events there is no
\* funnel but a message.
C5_FunnelRows ==
    Rendered =>
        /\ page.funnel.outputs = IF StepViews # {} THEN <<"chart">> ELSE <<"info">>
        /\ {row.Step : row \in FunnelRows}
              = {StepExpected(frames.df_events[i].event_data_json) : i \in StepViews}
        /\ \A r \in 1..Len(page.funnel.data) :
              page.funnel.data[r].Users = Cardinality(SessionsAt(page.funnel.data[r].Step))
        /\ \A r, q \in 1..Len(page.funnel.data) :
              r < q => page.funnel.data[r].Step < page.funnel.data[q].Step

C5_Witness ==
    /\ page.status = "footer"
    /\ Len(frames.df_events) = 2
    /\ frames.df_events[1].session_id = frames.df_events[2].session_id
    /\ frames.df_events[1].event_type = "step_view"
    /\ frames.df_events[2].event_type = "step_view"
    /\ StepExpected(frames.df_events[1].event_data_json) = 2
    /\ StepExpected(frames.df_events[2].event_data_json) = 1
    /\ page.funnel.data = <<[Step |-> 1, Users |-> 1], [Step |-> 2, Users |-> 1]>>

Leads == Count(frames.df_subs)

Sessions == Cardinality({frames.df_events[i].session_id : i \in 1..Len(frames.df_events)})

\* C6: conversion_rate (the fraction num/den) is total_leads / unique_sessions *
\* 100 when unique_sessions > 0 and exactly 0 when unique_sessions = 0, whatever
\* total_leads is; it is never negative and computing it never raises.
C6_ConversionRate ==
    Rendered =>
        /\ page.status = "footer"
        /\ page.total_leads = Leads
        /\ page.unique_sessions = Sessions
        /\ page.conversion_rate.den > 0
        /\ page.conversion_rate.num >= 0
        /\ Sessions > 0 =>
              page.conversion_rate.num * Sessions = Leads * 100 * page.conversion_rate.den
        /\ Sessions = 0 => page.conversion_rate.num = 0

\* a rate above 100
C6_Witness ==
    /\ page.status = "footer"
    /\ Sessions > 0
    /\ page.conversion_rate.num > 100 * page.conversion_rate.den

Field(d, k) ==
    IF \E i \in 1..Len(d) : d[i].key = k
    THEN d[CHOOSE i \in 1..Len(d) : d[i].key = k].val
    ELSE 0

\* the record of a JSON object with the fields of d
ObjectFinancials(d) ==
    [PropertyValue |-> Field(d, "propertyValue"),
     MortgageBalance |-> Field(d, "mortgageBalance"),
     CurrentPayment |-> IF \E i \in 1..Len(d) : d[i].key = "currentPayment"
                        THEN Field(d, "currentPayment")
                        ELSE Field(d, "mortgagePayment")]

FinancialsExpected(cell) ==
    IF cell.kind = "str" /\ \E d \in FinancialDicts : cell.text = ObjectText(d)
    THEN ObjectFinancials(CHOOSE d \in FinancialDicts : cell.text = ObjectText(d))
    ELSE IF cell.kind = "dict" THEN ObjectFinancials(cell.d)
    ELSE [PropertyValue |-> 0, MortgageBalance |-> 0, CurrentPayment |-> 0]

\* C7: extract_financials never fails; of a JSON object it gives propertyValue,
\* mortgageBalance and currentPayment (mortgagePayment when currentPayment is not
\* present), each 0 when absent; of malformed JSON and of JSON that is no object
\* it gives three zeros.
C7_ExtractFinancials ==
    Rendered =>
        /\ page.status = "footer"
        /\ ~page.financial.raised
        /\ frames.df_subs # <<>> =>
              /\ Len(page.financial.data.df_financials) = Len(frames.df_subs)
              /\ \A i \in 1..Len(frames.df_subs) :
                    page.financial.data.df_financials[i].v
                       = FinancialsExpected(frames.df_subs[i].full_data_json)

C7_Witness ==
    /\ page.status = "footer"
    /\ Len(frames.df_subs) = 2
    /\ frames.df_subs[1].full_data_json = StrCell(ObjectText(<<KV("mortgagePayment", 9)>>))
    /\ page.financial.data.df_financials[1].v.CurrentPayment = 9
    /\ frames.df_subs[2].full_data_json = StrCell(<<P("{"), S("bad")>>)
    /\ page.financial.data.df_financials[2].v.PropertyValue = 0

Nonzero(f) == f.PropertyValue # 0 \/ f.MortgageBalance # 0 \/ f.CurrentPayment # 0

\* C8 as stated: the filter keeps a record if and only if at least one of its
\* three fields is nonzero, whatever its sign.
C8_AsStated ==
    (Rendered /\ frames.df_subs # <<>>) =>
        page.financial.data.df_financials_clean
           = SelectSeq(page.financial.data.df_financials, LAMBDA r : Nonzero(r.v))

Greatest(df) ==
    CHOOSE m \in {df[i].created_at : i \in 1..Len(df)} :
        \A i \in 1..Len(df) : df[i].created_at <= m

\* C9: last_lead is "N/A" exactly when there are no submissions, reached without
\* a maximum over an empty frame and without an exception; otherwise it is the
\* minute of the greatest created_at among all submissions.
C9_LastLead ==
    Rendered =>
        /\ page.status = "footer"
        /\ page.metrics_on_empty = {}
        /\ page.last_lead.na <=> frames.df_subs = <<>>
        /\ frames.df_subs # <<>> =>
              /\ page.last_lead.minute * SecondsPerMinute <= Greatest(frames.df_subs)
              /\ Greatest(frames.df_subs)
                    < page.last_lead.minute * SecondsPerMinute + SecondsPerMinute

\* the greatest created_at is not that of the first row
C9_Witness ==
    /\ page.status = "footer"
    /\ ~page.last_lead.na
    /\ Len(frames.df_subs) = 2
    /\ frames.df_subs[1].created_at < frames.df_subs[2].created_at
    /\ page.last_lead.minute = frames.df_subs[2].created_at \div SecondsPerMinute

SingleSections ==
    {page.funnel, page.distribution, page.recent_submissions, page.recent_events}

Outcomes(section) ==
    {IF section.outputs[i] = "info" THEN "message" ELSE "data" :
        i \in 1..Len(section.outputs)}

\* C10 as stated, for the runs whose load returned: each of the five sections
\* ends in exactly one of the outcomes data or message, none aggregates an empty
\* collection, and the run reaches the footer.
C10_AsStated ==
    load.status = "returned" =>
        /\ page.status = "footer"
        /\ \A section \in SingleSections \cup {page.financial} :
              /\ Cardinality(Outcomes(section)) = 1
              /\ section.onEmpty = {}

\* C10: in a run whose load returned, the funnel, the event distribution, the
\* recent submissions and the recent events each end in exactly one output, data
\* or a message, and the message exactly when their collection is empty (the
\* funnel: when there is no step_view event); the financial profile ends either in
\* one message or in two panels, each of which is a chart or a message, so it can
\* show a chart and a message together; no aggregation runs on an empty
\* collection and the run reaches the footer.  A run that init_firebase stopped
\* renders no section.
C10_Sections ==
    /\ load.status = "returned" =>
          /\ page.status = "footer"
          /\ page.metrics_on_empty = {}
          /\ \A section \in SingleSections \cup {page.financial} : section.onEmpty = {}
          /\ page.funnel.outputs = IF StepViews # {} THEN <<"chart">> ELSE <<"info">>
          /\ page.distribution.outputs
                = IF frames.df_events # <<>> THEN <<"chart">> ELSE <<"info">>
          /\ page.recent_events.outputs
                = IF frames.df_events # <<>> THEN <<"table">> ELSE <<"info">>
          /\ page.recent_submissions.outputs
                = IF frames.df_subs # <<>> THEN <<"table">> ELSE <<"info">>
          /\ page.financial.outputs
                \in {<<"info">>} \cup {<<a, b>> : a \in {"chart", "info"}, b \in {"chart", "info"}}
          /\ frames.df_subs = <<>> => page.financial.outputs = <<"info">>
    /\ load.status = "stopped" =>
          /\ page.status = "stopped"
          /\ \A section \in SingleSections \cup {page.financial} : section.outputs = <<>>

\* the financial profile shows a chart and a message together
C10_Witness ==
    /\ load.status = "returned"
    /\ page.status = "footer"
    /\ page.financial.outputs = <<"chart", "info">>
    /\ frames.df_events # <<>>
    /\ StepViews = {}

-----------------------------------------------------------------------------
(* The failed load and the cache (Spec) *)

StoredFailure == cache.full /\ cache.value.cache_info.has_error

\* C11: a failed load is cached like a successful one.  The empty pair and the
\* diagnostic that load_firestore_data returned after catching a failure are
\* stored with the time of the load; every refresh while they are younger than
\* 60 seconds receives that same empty pair and diagnostic and queries nothing,
\* whatever the store holds or has become by then; the first refresh that finds
\* them expired queries the store again.
C11_FailedLoadIsCached ==
    [][ Refresh =>
          /\ (~Unexpired /\ load'.status = "returned" /\ load'.cache_info.has_error) =>
                /\ cache'.full
                /\ cache'.at = clock
                /\ cache'.value.cache_info = load'.cache_info
                /\ cache'.value.df_subs = <<>> /\ cache'.value.df_events = <<>>
          /\ (StoredFailure /\ Unexpired) =>
                /\ load'.hit
                /\ load'.status = "returned"
                /\ load'.queried = <<>>
                /\ load'.cache_info = cache.value.cache_info
                /\ load'.cache_info.has_error
                /\ frames' = NoFrames
                /\ cache' = cache
          /\ (StoredFailure /\ ~Unexpired) =>
                /\ ~load'.hit
                /\ load'.queried # <<>>
                /\ load'.queried[1] = "submissions"
      ]_vars

\* a refresh inside the window got the stored failure although the store is
\* reachable again and holds a submission
C11_Witness ==
    /\ load.hit
    /\ load.status = "returned"
    /\ load.cache_info.has_error
    /\ frames = NoFrames
    /\ StoredFailure
    /\ clock - cache.at > 0 /\ clock - cache.at < TTL
    /\ env.health = "ok"
    /\ Count(WithCreatedAt(env.submissions)) > 0
    /\ \A i \in 1..Len(env.submissions) :
          ~BadCreatedAt(env.submissions[i]) /\ ~BadPayload(env.submissions[i].fullDataJson)

====
